---- MODULE Spec2Model ----
(***************************************************************************)
(* Leave-request ("detachement") back end.  The repository holds six       *)
(* variants of server.js; the model runs one of them, chosen at start-up:  *)
(*   "mongo"   src/server.js 1-353           Mongo + JWT, mail in background*)
(*   "map"     src/server.js 355-727         in-memory Map                  *)
(*   "gmail"   src/unnamed/part_000 1-460    Mongo + Gmail, daily reminders *)
(*   "array"   src/unnamed/part_000 463-892  in-memory array                *)
(*   "smtp"    src/unnamed/part_000 896-1287 Mongo + SMTP, J+2/J+4 reminders*)
(*   "array1"  src/unnamed/part_001          in-memory array, validate only *)
(* Node runs one callback at a time: the code between two awaits is one     *)
(* atomic step, and other handlers run while a handler awaits.              *)
(***************************************************************************)
EXTENDS Integers, Sequences, FiniteSets, TLC

\* ---------------------------------------------------------------- bounds
MaxOps == 3      \* requests handled in one run (logins apart)
MaxCalls == 2    \* handlers in flight at the same time
MaxIds == 2      \* records created in one run
MaxDays == 4     \* days that pass in one run
DayLen == 2      \* ticks of the clock in a day

\* ---------------------------------------------------------------- values
Variants == {"mongo", "map", "gmail", "array", "smtp", "array1"}
InMemory == {"map", "array", "array1"}
Mongo == {"mongo", "gmail", "smtp"}

\* undefined / null of a string-valued field, and of a timestamp
Null == "<null>"
NoTime == 0
\* body.days absent (undefined)
NoDays == -1

\* JavaScript truthiness of a string-valued field: !x
Falsy(x) == x \in {Null, ""}

\* String.prototype.trim on the strings the model uses
trim(s) == IF s \in {" ", ""} THEN "" ELSE IF s = " a@x.fr" THEN "a@x.fr" ELSE s

\* a date string: f = "iso" is YYYY-MM-DD, "fr" is DD/MM/YYYY, "raw" is any
\* other non-empty text, "none" is a missing or empty value
NoDate == [f |-> "none", y |-> 0, m |-> 0, d |-> 0]
Iso(y, m, d) == [f |-> "iso", y |-> y, m |-> m, d |-> d]
Fr(y, m, d) == [f |-> "fr", y |-> y, m |-> m, d |-> d]
Raw == [f |-> "raw", y |-> 0, m |-> 0, d |-> 0]     \* a text such as "demain"

\* ---------------------------------------------------------------- dates
IsLeap(y) == (y % 4 = 0 /\ y % 100 # 0) \/ y % 400 = 0
DaysInMonth(y, m) ==
    IF m = 2 THEN (IF IsLeap(y) THEN 29 ELSE 28)
    ELSE IF m \in {4, 6, 9, 11} THEN 30 ELSE 31
RECURSIVE DaysBeforeMonth(_, _)
DaysBeforeMonth(y, m) ==
    IF m <= 1 THEN 0 ELSE DaysBeforeMonth(y, m - 1) + DaysInMonth(y, m - 1)
DaysBeforeYear(y) == 365 * y + (y - 1) \div 4 - (y - 1) \div 100 + (y - 1) \div 400

\* new Date(s + 'T00:00:00Z'): only YYYY-MM-DD with month 1..12 and day 1..31
\* parses; anything else is an Invalid Date (NaN)
IsInvalidDate(s) == ~(s.f = "iso" /\ s.m \in 1..12 /\ s.d \in 1..31)
\* the parsed instant in whole days (a day past the month's end rolls over)
utcDay(s) == DaysBeforeYear(s.y) + DaysBeforeMonth(s.y, s.m) + s.d - 1

\* NaN, as a number of half days no computation reaches
NaN == -99999

\* String.prototype.toUpperCase on the period markers the model uses
toUpperCase(p) == IF p = "am" THEN "AM" ELSE IF p = "pm" THEN "PM"
                  ELSE IF p = "full" THEN "FULL"
                  ELSE IF p = "21b" THEN "21B" ELSE IF p = "21c" THEN "21C"
                  ELSE IF p = "Pour Information" THEN "POUR INFORMATION"
                  ELSE IF p = "x" THEN "X" ELSE p

\* a same-day rule that knows no half day, and a multi-day rule that takes
\* half a day off for every marker other than FULL
sameDayHalves_whole(sp, ep) == 2
multiDayHalves_anyHalf(base, sp, ep) ==
    2 * base - (IF sp # "FULL" THEN 1 ELSE 0) - (IF ep # "FULL" THEN 1 ELSE 0)

\* The three computeDays below return the duration in HALF days (2 * days),
\* so that 0.5 is the integer 1.
sameDayHalves(sp, ep) ==
    IF sp = "FULL" \/ ep = "FULL" THEN 2
    ELSE IF sp = "AM" /\ ep = "PM" THEN 2
    ELSE IF sp = "AM" /\ ep = "AM" THEN 1
    ELSE IF sp = "PM" /\ ep = "PM" THEN 1
    ELSE 2
multiDayHalves(base, sp, ep) ==
    IF base = NaN THEN NaN
    ELSE 2 * base - (IF sp = "PM" THEN 1 ELSE 0) - (IF ep = "AM" THEN 1 ELSE 0)

\* Math.floor((to - from) / dayMs) + 1
baseDays(dFrom, dTo) ==
    IF IsInvalidDate(dFrom) \/ IsInvalidDate(dTo) THEN NaN
    ELSE utcDay(dTo) - utcDay(dFrom) + 1

\* src/server.js computeDays (in-memory Map variant)
computeDays_map(dFrom, dTo0, sp0, ep0) ==
    IF dFrom.f = "none" THEN 0
    ELSE LET dTo == IF dTo0.f = "none" THEN dFrom ELSE dTo0
             sp == toUpperCase(IF Falsy(sp0) THEN "FULL" ELSE sp0)
             ep == toUpperCase(IF Falsy(ep0) THEN "FULL" ELSE ep0)
         IN  IF IsInvalidDate(dFrom) \/ IsInvalidDate(dTo) THEN 0
             ELSE IF dFrom = dTo THEN sameDayHalves(sp, ep)
             ELSE multiDayHalves(baseDays(dFrom, dTo), sp, ep)

\* a computeDays without the branch of the single calendar day
computeDays_array_noSameDay(dFrom, dTo, startP, endP) ==
    IF dFrom.f = "none" \/ dTo.f = "none" THEN 0
    ELSE multiDayHalves(baseDays(dFrom, dTo), startP, endP)

\* src/unnamed/part_000 computeDays (in-memory array variant)
computeDays_array(dFrom, dTo, startP, endP) ==
    IF dFrom.f = "none" \/ dTo.f = "none" THEN 0
    ELSE IF dFrom = dTo THEN sameDayHalves(startP, endP)
    ELSE multiDayHalves(baseDays(dFrom, dTo), startP, endP)

\* src/unnamed/part_001 computeDays
computeDays_array1(dFrom, dTo, startP, endP) ==
    IF dFrom.f = "none" \/ dTo.f = "none" THEN 0
    ELSE IF dFrom = dTo THEN sameDayHalves(startP, endP)
    ELSE multiDayHalves(baseDays(dFrom, dTo), startP, endP)

\* normalizeDate: DD/MM/YYYY becomes YYYY-MM-DD, everything else is returned
\* as it came
normalizeDate(input) ==
    IF input.f = "none" THEN input
    ELSE IF input.f = "iso" THEN input
    ELSE IF input.f = "fr" THEN Iso(input.y, input.m, input.d)
    ELSE input

\* /^\d{4}-\d{2}-\d{2}$/.test(s)
IsIsoText(s) == s.f = "iso"

\* s1 < s2 on strings: for two YYYY-MM-DD texts the lexicographic order is
\* the order of (y, m, d); a DD/MM/YYYY text compares on (d, m, y); a digit
\* sorts before a letter, so every date text sorts before the "raw" text
\* (a word such as "demain")
StrLess(a, b) ==
    LET key(s) == IF s.f = "iso" THEN <<s.y, s.m, s.d>> ELSE <<s.d, s.m, s.y>>
        lex(k, l) == \/ k[1] < l[1]
                     \/ k[1] = l[1] /\ k[2] < l[2]
                     \/ k[1] = l[1] /\ k[2] = l[2] /\ k[3] < l[3]
    IN  IF a.f = "raw" THEN FALSE
        ELSE IF b.f = "raw" THEN TRUE
        ELSE IF a.f = b.f THEN lex(key(a), key(b))
        \* "20.." against "DD/..": the first two digits decide; when they are
        \* equal the third character does, and "/" sorts before every digit
        ELSE IF a.f = "iso" THEN a.y \div 100 < b.d
        ELSE a.d <= b.y \div 100

\* ---------------------------------------------------------------- e-mail
\* The address texts the model uses.  " a@x.fr" carries a leading blank,
\* "a b@x.fr" an inner blank, "a@@x.fr" two @, "bad" no @.
FixedTo == {"reine.allaglo@csec-sg.com", "chrystelle.agea@socgen.com"}
Validators == {"sebastien.delgado@csec-sg.com", "ludivine.perreaut@gmail.com"}
Array1Cc == {"sdelgado.csecsg@gmail.com", "sebastien.delgado@socgen.com"}

\* src/server.js cleanEmail: strips control and exotic blank characters, trims
cleanEmail(s) == IF s = Null THEN "" ELSE trim(s)
\* src/server.js isEmail: ^local@domain(.label)+$ on the cleaned text
isEmail_map(s) ==
    cleanEmail(s) \in {"a@x.fr", "m@x.fr", "h@x.fr"} \cup FixedTo \cup Validators
\* part_000 / part_001 isEmail: a string matching /.+@.+\..+/ anywhere
isEmail_array(x) ==
    x \in {"a@x.fr", "m@x.fr", "h@x.fr", " a@x.fr", "a b@x.fr", "a@@x.fr"}
             \cup FixedTo \cup Validators
\* mustBeEmail: the cleaned address, or the label of the field it rejects
mustBeEmailFails(s) == ~isEmail_map(cleanEmail(s))

\* ---------------------------------------------------------------- state
VARIABLES
    variant,    \* which server.js runs
    requests,   \* REQUESTS / DB.requests / the Request collection, in store order
    tokens,     \* DB.tokens (in-memory Map variant)
    calls,      \* handlers in flight, by slot
    outbox,     \* messages the mail transport accepted, in order
    last,       \* the HTTP response sent most recently
    clock,      \* new Date(): the next timestamp
    nOps,       \* handler invocations so far
    calc        \* a call of computeDays: its arguments and its result

vars == <<variant, requests, tokens, calls, outbox, last, clock, nOps, calc>>

Slots == 1..MaxCalls

\* a record that is born validated and decided
NoRec_decided ==
    [id |-> 0, full_name |-> Null, applicant_email |-> Null, entity |-> Null,
     date_from |-> NoDate, date_to |-> NoDate,
     start_period |-> Null, end_period |-> Null, place |-> Null, type |-> Null,
     manager_email |-> Null, hr_email |-> Null, days |-> NoDays, comment |-> Null,
     status |-> "none", created_at |-> NoTime, validated_at |-> 1,
     decision_at |-> 1, decision_reason |-> "motif",
     refuse_reason |-> Null, cancel_reason |-> Null,
     reminder2_sent_at |-> NoTime, reminder4_sent_at |-> NoTime,
     reminder_last_sent_on |-> NoTime]

\* a stored record; a field a variant does not have stays Null / NoTime
NoRec == [id |-> 0, full_name |-> Null, applicant_email |-> Null, entity |-> Null,
          date_from |-> NoDate, date_to |-> NoDate,
          start_period |-> Null, end_period |-> Null, place |-> Null, type |-> Null,
          manager_email |-> Null, hr_email |-> Null, days |-> NoDays, comment |-> Null,
          status |-> "none", created_at |-> NoTime, validated_at |-> NoTime,
          decision_at |-> NoTime, decision_reason |-> Null,
          refuse_reason |-> Null, cancel_reason |-> Null,
          reminder2_sent_at |-> NoTime, reminder4_sent_at |-> NoTime,
          reminder_last_sent_on |-> NoTime]

\* a message handed to the mail transport
\* (day: for a reminder, the calendar day of the cron run that sends it)
NoMail == [kind |-> "none", id |-> 0, to |-> {}, cc |-> {}, reason |-> Null, day |-> 0]
Mail(kind, id, to, cc, reason) ==
    [kind |-> kind, id |-> id, to |-> to, cc |-> cc, reason |-> reason, day |-> 0]

\* req.query of GET /api/requests: a filter that is not given is Null
NoQuery == [status |-> Null, entity |-> Null, type |-> Null]

\* a handler in flight.  seen is the status its lookup read; wrote, mailed,
\* failed and responded record what has happened to it so far: it changed
\* the store (prev is the status its write replaced), the transport accepted
\* its message, the transport failed, it answered
Idle == [pc |-> "idle", op |-> "none", id |-> 0, reason |-> Null, seen |-> "none",
         prev |-> "none", doc |-> NoRec, mail |-> NoMail, query |-> NoQuery,
         \* of a cron run: the documents it found pending, the one it is at,
         \* the reminder it is at (2, 4, or 1 for the daily one), its dayjs()
         pending |-> <<>>, idx |-> 0, stage |-> 0, now |-> NoTime,
         wrote |-> FALSE, mailed |-> FALSE, failed |-> FALSE, responded |-> FALSE]

\* REQUESTS.find(x => x.id === id) / DB.requests.get(id) / Request.findById(id)
Has(id) == \E i \in 1..Len(requests) : requests[i].id = id
IndexOf(id) == CHOOSE i \in 1..Len(requests) : requests[i].id = id
Get(id) == requests[IndexOf(id)]
\* an assignment that lands on every stored record, and one that drops the
\* record from the store
Put_all(id, rec) == [i \in 1..Len(requests) |-> rec]
Put_drop(id, rec) == SelectSeq(requests, LAMBDA x : x.id # id)
\* assignment to fields of the stored record with this id
Put(id, rec) == [requests EXCEPT ![IndexOf(id)] = rec]

\* an HTTP response: code is the status code, already the {already: true}
\* flag, err the field or rule the error message names; with it, what the
\* handler had done when it answered: seen, wrote, mailed, failed as above,
\* prev the status its write replaced
NoResp == [op |-> "none", id |-> 0, reason |-> Null, code |-> 0, already |-> FALSE,
           err |-> "", seen |-> "none", prev |-> "none",
           wrote |-> FALSE, mailed |-> FALSE, failed |-> FALSE,
           query |-> NoQuery, items |-> <<>>]
Resp(op, id, reason, code, already, err, seen, wrote, mailed) ==
    [op |-> op, id |-> id, reason |-> reason, code |-> code, already |-> already,
     err |-> err, seen |-> seen, prev |-> "none",
     wrote |-> wrote, mailed |-> mailed, failed |-> FALSE,
     query |-> NoQuery, items |-> <<>>]
\* the response of the handler in slot c
Answer(c, code, already, err) ==
    [Resp(calls[c].op, calls[c].id, calls[c].reason, code, already, err,
          calls[c].seen, calls[c].wrote, calls[c].mailed)
       EXCEPT !.failed = calls[c].failed, !.prev = calls[c].prev]
\* the same, of a handler that has just assigned to the stored record
AnswerWrote(c, code) ==
    [Answer(c, code, FALSE, "") EXCEPT !.wrote = TRUE, !.prev = Get(calls[c].id).status]

\* randomUUID() / a new ObjectId: an id no record has
NewId == Len(requests) + 1
\* req.params.id of a text that is no ObjectId (for instance "abc")
BadId == 0
\* isValidId / mongoose.Types.ObjectId.isValid
isValidId(id) == id # BadId

\* a rendered date phrase: form "day" is `A` with its mark in start, form
\* "span" is `Du A au B` with the annotation of each end, form "dash" is the
\* dash alone.  A mark or annotation is "", "Matin" or "Après-midi".
NoPhrase == [form |-> "none", A |-> NoDate, B |-> NoDate, start |-> "", end |-> ""]
Phrase(form, A, B, start, end) ==
    [form |-> form, A |-> A, B |-> B, start |-> start, end |-> end]

\* no call of computeDays or of a date renderer under way
NoCalc == [dFrom |-> NoDate, dTo |-> NoDate, sp |-> Null, ep |-> Null,
           done |-> FALSE, out |-> NoDays, phrase |-> NoPhrase]

Init ==
    /\ variant \in Variants
    /\ calc = NoCalc
    /\ requests = <<>>
    /\ tokens = {}
    /\ calls = [c \in Slots |-> Idle]
    /\ outbox = <<>>
    /\ last = NoResp
    /\ clock = 1
    /\ nOps = 0

\* a handler begins: the run has room for it, and it takes the first free slot
Free(c) == calls[c].pc = "idle"
CanStart == nOps < MaxOps /\ \E c \in Slots : Free(c)
Slot == CHOOSE c \in Slots : Free(c) /\ \A d \in Slots : d < c => ~Free(d)
\* the handler answers at once: no await was reached
Reply(r) == /\ last' = r
            /\ nOps' = nOps + 1
            /\ UNCHANGED <<variant, calc, requests, tokens, calls, outbox, clock>>
\* the handler hands a message to the transport and awaits the outcome
Await(call) == /\ calls' = [calls EXCEPT ![Slot] = call]
               /\ nOps' = nOps + 1
               /\ UNCHANGED <<variant, calc, requests, tokens, outbox, last, clock>>
\* [a, b, ...].filter(Boolean)
Truthy(S) == {x \in S : ~Falsy(x)}

\* ------------------------------------------- in-memory array (part_000)
\* a middleware that lets every caller through
requireAuth_open(tok) == TRUE
\* requireAuth: the bearer token is the fixed text 'ok'
requireAuth_array(tok) == tok = "ok"

\* POST /api/requests
Create_array(body) ==
    /\ variant = "array" /\ CanStart /\ Len(requests) < MaxIds
    /\ LET dateFrom == normalizeDate(body.dateFrom)
           dateTo == normalizeDate(IF body.dateTo.f = "none" THEN dateFrom ELSE body.dateTo)
           startPeriod == toUpperCase(IF Falsy(body.startPeriod) THEN "FULL" ELSE body.startPeriod)
           endPeriod == toUpperCase(IF Falsy(body.endPeriod) THEN "FULL" ELSE body.endPeriod)
           type == toUpperCase(IF Falsy(body.type) THEN "21B" ELSE body.type)
           bad(err) == Reply(Resp("create", 0, Null, 400, FALSE, err, "none", FALSE, FALSE))
           item == [NoRec EXCEPT
                      !.id = NewId, !.full_name = trim(body.fullName),
                      !.applicant_email = body.applicantEmail, !.entity = body.entity,
                      !.date_from = dateFrom, !.date_to = dateTo,
                      !.start_period = startPeriod, !.end_period = endPeriod,
                      !.place = body.place, !.type = type,
                      !.manager_email = body.managerEmail, !.hr_email = body.hrEmail,
                      !.days = computeDays_array(dateFrom, dateTo, startPeriod, endPeriod),
                      !.comment = IF Falsy(body.comment) THEN Null ELSE body.comment,
                      !.status = "pending", !.created_at = clock]
       IN  IF Falsy(body.fullName) \/ Falsy(body.entity) \/ Falsy(body.place)
               THEN bad("required")
           ELSE IF ~isEmail_array(body.applicantEmail) THEN bad("applicantEmail")
           ELSE IF dateFrom.f = "none" THEN bad("dateFrom")
           ELSE IF ~IsIsoText(dateFrom) \/ ~IsIsoText(dateTo) THEN bad("dateFormat")
           ELSE IF startPeriod \notin {"AM", "PM", "FULL"} THEN bad("startPeriod")
           ELSE IF endPeriod \notin {"AM", "PM", "FULL"} THEN bad("endPeriod")
           ELSE IF type \notin {"21B", "21C"} THEN bad("type")
           ELSE IF ~isEmail_array(body.managerEmail) THEN bad("managerEmail")
           ELSE IF ~isEmail_array(body.hrEmail) THEN bad("hrEmail")
           ELSE /\ requests' = <<item>> \o requests
                /\ last' = Resp("create", item.id, Null, 200, FALSE, "", "none", TRUE, FALSE)
                /\ clock' = clock + 1
                /\ nOps' = nOps + 1
                /\ UNCHANGED <<variant, calc, tokens, calls, outbox>>

\* POST /api/requests/:id/validate, up to the await of mailer.sendMail
Validate_array(id, tok) ==
    /\ variant = "array" /\ CanStart
    /\ LET no(code, err) == Reply(Resp("validate", id, Null, code, FALSE, err, "none", FALSE, FALSE))
       IN  IF ~requireAuth_array(tok) THEN no(401, "auth")
           ELSE IF ~Has(id) THEN no(404, "id")
           ELSE LET r == Get(id) IN
                IF r.status = "sent"
                    THEN Reply(Resp("validate", id, Null, 200, TRUE, "", r.status, FALSE, FALSE))
                ELSE Await([Idle EXCEPT !.pc = "mail", !.op = "validate", !.id = id,
                              !.seen = r.status,
                              !.mail = Mail("validate", id,
                                            Truthy({r.manager_email, r.hr_email}),
                                            FixedTo, Null)])

\* the rest of validate: after the await
Validate_array_then(c) ==
    /\ variant = "array" /\ calls[c].op = "validate" /\ calls[c].pc \in {"sent", "failed"}
    /\ IF calls[c].pc = "sent"
       THEN /\ requests' = Put(calls[c].id, [Get(calls[c].id) EXCEPT
                                  !.status = "sent", !.validated_at = clock])
            /\ clock' = clock + 1
            /\ last' = AnswerWrote(c, 200)
       ELSE /\ last' = Answer(c, 500, FALSE, "mail")
            /\ UNCHANGED <<requests, clock>>
    /\ calls' = [calls EXCEPT ![c] = Idle]
    /\ UNCHANGED <<variant, calc, tokens, outbox, nOps>>

\* POST /api/requests/:id/refuse and /cancel, up to the await of
\* mailer.sendMail; kind is "refuse" or "cancel"
Decide_array(kind, id, reason, tok) ==
    /\ variant = "array" /\ CanStart
    /\ LET no(code, err) == Reply(Resp(kind, id, reason, code, FALSE, err, "none", FALSE, FALSE))
       IN  IF ~requireAuth_array(tok) THEN no(401, "auth")
           ELSE IF ~Has(id) THEN no(404, "id")
           ELSE LET r == Get(id) IN
                IF Falsy(r.applicant_email) \/ ~isEmail_array(r.applicant_email)
                    THEN Reply(Resp(kind, id, reason, 400, FALSE, "applicantEmail",
                                    r.status, FALSE, FALSE))
                ELSE Await([Idle EXCEPT !.pc = "mail", !.op = kind, !.id = id,
                              !.reason = reason, !.seen = r.status,
                              !.mail = Mail(kind, id, {r.applicant_email}, {}, reason)])
Refuse_array(id, reason, tok) == Decide_array("refuse", id, reason, tok)
Cancel_array(id, reason, tok) == Decide_array("cancel", id, reason, tok)

\* the rest of refuse / cancel: after the await
Decide_array_then(c, kind, status) ==
    /\ variant = "array" /\ calls[c].op = kind /\ calls[c].pc \in {"sent", "failed"}
    /\ IF calls[c].pc = "sent"
       THEN /\ requests' = Put(calls[c].id, [Get(calls[c].id) EXCEPT
                                  !.status = status,
                                  !.decision_reason =
                                      IF Falsy(calls[c].reason) THEN Null ELSE calls[c].reason,
                                  !.decision_at = clock])
            /\ clock' = clock + 1
            /\ last' = AnswerWrote(c, 200)
       ELSE /\ last' = Answer(c, 500, FALSE, "mail")
            /\ UNCHANGED <<requests, clock>>
    /\ calls' = [calls EXCEPT ![c] = Idle]
    /\ UNCHANGED <<variant, calc, tokens, outbox, nOps>>
Refuse_array_then(c) == Decide_array_then(c, "refuse", "refused")
Cancel_array_then(c) == Decide_array_then(c, "cancel", "cancelled")

\* ------------------------------------------- in-memory array (part_001)
requireAuth_array1(tok) == tok = "ok"

\* POST /api/requests
Create_array1(body) ==
    /\ variant = "array1" /\ CanStart /\ Len(requests) < MaxIds
    /\ LET dateFrom == normalizeDate(body.dateFrom)
           dateTo == normalizeDate(IF body.dateTo.f = "none" THEN dateFrom ELSE body.dateTo)
           startPeriod == toUpperCase(IF Falsy(body.startPeriod) THEN "FULL" ELSE body.startPeriod)
           endPeriod == toUpperCase(IF Falsy(body.endPeriod) THEN "FULL" ELSE body.endPeriod)
           type == toUpperCase(IF Falsy(body.type) THEN "21B" ELSE body.type)
           bad(err) == Reply(Resp("create", 0, Null, 400, FALSE, err, "none", FALSE, FALSE))
           item == [NoRec EXCEPT
                      !.id = NewId, !.full_name = trim(body.fullName),
                      !.entity = body.entity,
                      !.date_from = dateFrom, !.date_to = dateTo,
                      !.start_period = startPeriod, !.end_period = endPeriod,
                      !.place = body.place, !.type = type,
                      !.manager_email = body.managerEmail, !.hr_email = body.hrEmail,
                      !.days = computeDays_array1(dateFrom, dateTo, startPeriod, endPeriod),
                      !.comment = IF Falsy(body.comment) THEN Null ELSE body.comment,
                      !.status = "pending", !.created_at = clock]
       IN  IF Falsy(body.fullName) \/ Falsy(body.entity) \/ Falsy(body.place)
               THEN bad("required")
           ELSE IF dateFrom.f = "none" THEN bad("dateFrom")
           ELSE IF ~IsIsoText(dateFrom) \/ ~IsIsoText(dateTo) THEN bad("dateFormat")
           ELSE IF startPeriod \notin {"AM", "PM", "FULL"} THEN bad("startPeriod")
           ELSE IF endPeriod \notin {"AM", "PM", "FULL"} THEN bad("endPeriod")
           ELSE IF type \notin {"21B", "21C"} THEN bad("type")
           ELSE IF ~isEmail_array(body.managerEmail) THEN bad("managerEmail")
           ELSE IF ~isEmail_array(body.hrEmail) THEN bad("hrEmail")
           ELSE /\ requests' = <<item>> \o requests
                /\ last' = Resp("create", item.id, Null, 200, FALSE, "", "none", TRUE, FALSE)
                /\ clock' = clock + 1
                /\ nOps' = nOps + 1
                /\ UNCHANGED <<variant, calc, tokens, calls, outbox>>

\* POST /api/requests/:id/validate, up to the await of mailer.sendMail
Validate_array1(id, tok) ==
    /\ variant = "array1" /\ CanStart
    /\ LET no(code, err) == Reply(Resp("validate", id, Null, code, FALSE, err, "none", FALSE, FALSE))
       IN  IF ~requireAuth_array1(tok) THEN no(401, "auth")
           ELSE IF ~Has(id) THEN no(404, "id")
           ELSE LET r == Get(id) IN
                IF r.status = "sent"
                    THEN Reply(Resp("validate", id, Null, 200, TRUE, "", r.status, FALSE, FALSE))
                ELSE Await([Idle EXCEPT !.pc = "mail", !.op = "validate", !.id = id,
                              !.seen = r.status,
                              !.mail = Mail("validate", id,
                                            Truthy({r.manager_email, r.hr_email}),
                                            Array1Cc, Null)])

\* the rest of validate: after the await
Validate_array1_then(c) ==
    /\ variant = "array1" /\ calls[c].op = "validate" /\ calls[c].pc \in {"sent", "failed"}
    /\ IF calls[c].pc = "sent"
       THEN /\ requests' = Put(calls[c].id, [Get(calls[c].id) EXCEPT
                                  !.status = "sent", !.validated_at = clock])
            /\ clock' = clock + 1
            /\ last' = AnswerWrote(c, 200)
       ELSE /\ last' = Answer(c, 500, FALSE, "mail")
            /\ UNCHANGED <<requests, clock>>
    /\ calls' = [calls EXCEPT ![c] = Idle]
    /\ UNCHANGED <<variant, calc, tokens, outbox, nOps>>

\* ------------------------------------------- in-memory Map (server.js)
\* authMiddleware: a token that POST /api/auth/login issued
authMiddleware(tok) == tok # "" /\ tok \in tokens

\* POST /api/auth/login: the right credentials add a fresh token to DB.tokens
Login_map(ok) ==
    /\ variant = "map"
    /\ IF ok THEN /\ tokens' = tokens \cup {"t1"}
                  /\ last' = Resp("login", 0, Null, 200, FALSE, "", "none", FALSE, FALSE)
             ELSE /\ last' = Resp("login", 0, Null, 401, FALSE, "auth", "none", FALSE, FALSE)
                  /\ UNCHANGED tokens
    /\ UNCHANGED <<variant, calc, requests, calls, outbox, clock, nOps>>

\* normalizeRequestPayload: "" when the payload passes, else what the thrown
\* message names
payloadError(body) ==
    LET dateFrom == body.dateFrom
        dateTo == IF body.dateTo.f = "none" THEN dateFrom ELSE body.dateTo
        startPeriod == toUpperCase(IF Falsy(body.startPeriod) THEN "FULL" ELSE body.startPeriod)
        endPeriod == toUpperCase(IF Falsy(body.endPeriod) THEN "FULL" ELSE body.endPeriod)
    IN  IF mustBeEmailFails(body.applicantEmail) THEN "applicantEmail"
        ELSE IF mustBeEmailFails(body.managerEmail) THEN "managerEmail"
        ELSE IF mustBeEmailFails(body.hrEmail) THEN "hrEmail"
        ELSE IF dateFrom.f = "none" THEN "dateFrom"
        ELSE IF dateTo.f # "none" /\ StrLess(dateTo, dateFrom) THEN "dateOrder"
        ELSE IF dateFrom = dateTo /\ startPeriod = "PM" /\ endPeriod = "AM" THEN "periodOrder"
        ELSE ""
\* normalizeRequestPayload: the fields of the record
normalizeRequestPayload(body) ==
    LET dateFrom == body.dateFrom
        dateTo == IF body.dateTo.f = "none" THEN dateFrom ELSE body.dateTo
        startPeriod == toUpperCase(IF Falsy(body.startPeriod) THEN "FULL" ELSE body.startPeriod)
        endPeriod == toUpperCase(IF Falsy(body.endPeriod) THEN "FULL" ELSE body.endPeriod)
        \* Number(body.days ?? computeDays(...)) || 0
        days0 == IF body.days = NoDays
                 THEN computeDays_map(dateFrom, dateTo, startPeriod, endPeriod)
                 ELSE body.days
    IN  [NoRec EXCEPT
           !.full_name = IF body.fullName = Null THEN "" ELSE trim(body.fullName),
           !.applicant_email = cleanEmail(body.applicantEmail),
           !.entity = IF body.entity = Null THEN "" ELSE trim(body.entity),
           !.date_from = dateFrom, !.date_to = dateTo,
           !.start_period = startPeriod, !.end_period = endPeriod,
           !.place = IF body.place = Null THEN "" ELSE trim(body.place),
           !.type = IF body.type = Null THEN "" ELSE trim(body.type),
           !.manager_email = cleanEmail(body.managerEmail),
           !.hr_email = cleanEmail(body.hrEmail),
           !.comment = IF body.comment = Null THEN "" ELSE trim(body.comment),
           !.days = IF days0 = NaN THEN 0 ELSE days0]

\* POST /api/requests
Create_map(body) ==
    /\ variant = "map" /\ CanStart /\ Len(requests) < MaxIds
    /\ IF payloadError(body) # ""
       THEN Reply(Resp("create", 0, Null, 400, FALSE, payloadError(body), "none", FALSE, FALSE))
       ELSE LET rec == [normalizeRequestPayload(body) EXCEPT
                          !.id = NewId, !.status = "pending", !.created_at = clock]
            IN  /\ requests' = Append(requests, rec)
                /\ last' = Resp("create", rec.id, Null, 200, FALSE, "", "none", TRUE, FALSE)
                /\ clock' = clock + 1
                /\ nOps' = nOps + 1
                /\ UNCHANGED <<variant, calc, tokens, calls, outbox>>

\* POST /api/requests/:id/validate, up to the await of transporter.sendMail
Validate_map(id, tok) ==
    /\ variant = "map" /\ CanStart
    /\ LET no(code, err) == Reply(Resp("validate", id, Null, code, FALSE, err, "none", FALSE, FALSE))
       IN  IF ~authMiddleware(tok) THEN no(401, "auth")
           ELSE IF ~Has(id) THEN no(404, "id")
           ELSE LET rec == Get(id)
                    toList == {x \in {cleanEmail(rec.manager_email), cleanEmail(rec.hr_email)}
                                      \cup FixedTo : isEmail_map(x)}
                    ccList == {x \in Validators \cup {cleanEmail(rec.applicant_email)} :
                                      isEmail_map(x)}
                IN  Await([Idle EXCEPT !.pc = "mail", !.op = "validate", !.id = id,
                             !.seen = rec.status,
                             !.mail = Mail("validate", id, toList, ccList, Null)])

\* the rest of validate: after the await
Validate_map_then(c) ==
    /\ variant = "map" /\ calls[c].op = "validate" /\ calls[c].pc \in {"sent", "failed"}
    /\ IF calls[c].pc = "sent"
       THEN /\ requests' = Put(calls[c].id, [Get(calls[c].id) EXCEPT
                                  !.status = "sent", !.validated_at = clock])
            /\ clock' = clock + 1
            /\ last' = AnswerWrote(c, 200)
       ELSE /\ last' = Answer(c, 500, FALSE, "mail")
            /\ UNCHANGED <<requests, clock>>
    /\ calls' = [calls EXCEPT ![c] = Idle]
    /\ UNCHANGED <<variant, calc, tokens, outbox, nOps>>

\* POST /api/requests/:id/refuse and /cancel, up to the await of
\* transporter.sendMail; kind is "refuse" or "cancel"
Decide_map(kind, id, reason0, tok) ==
    /\ variant = "map" /\ CanStart
    /\ LET no(code, err) == Reply(Resp(kind, id, reason0, code, FALSE, err, "none", FALSE, FALSE))
           reason == IF reason0 = Null THEN "" ELSE trim(reason0)
       IN  IF ~authMiddleware(tok) THEN no(401, "auth")
           ELSE IF ~Has(id) THEN no(404, "id")
           ELSE LET rec == Get(id) IN
                IF reason = ""
                    THEN Reply(Resp(kind, id, reason0, 400, FALSE, "reason",
                                    rec.status, FALSE, FALSE))
                ELSE Await([Idle EXCEPT !.pc = "mail", !.op = kind, !.id = id,
                              !.reason = reason, !.seen = rec.status,
                              !.mail = Mail(kind, id, {cleanEmail(rec.applicant_email)},
                                            {}, reason)])
Refuse_map(id, reason, tok) == Decide_map("refuse", id, reason, tok)
Cancel_map(id, reason, tok) == Decide_map("cancel", id, reason, tok)

\* the rest of refuse / cancel: after the await
Decide_map_then(c, kind, status) ==
    /\ variant = "map" /\ calls[c].op = kind /\ calls[c].pc \in {"sent", "failed"}
    /\ IF calls[c].pc = "sent"
       THEN /\ requests' = Put(calls[c].id, [Get(calls[c].id) EXCEPT
                                  !.status = status, !.decision_at = clock,
                                  !.decision_reason = calls[c].reason])
            /\ clock' = clock + 1
            /\ last' = AnswerWrote(c, 200)
       ELSE /\ last' = Answer(c, 500, FALSE, "mail")
            /\ UNCHANGED <<requests, clock>>
    /\ calls' = [calls EXCEPT ![c] = Idle]
    /\ UNCHANGED <<variant, calc, tokens, outbox, nOps>>
Refuse_map_then(c) == Decide_map_then(c, "refuse", "refused")
Cancel_map_then(c) == Decide_map_then(c, "cancel", "cancelled")

\* ------------------------------- Mongo variants (mongo, gmail, smtp)
\* authRequired: a bearer JWT signed with JWT_SECRET whose admin exists
authRequired(tok) == tok = "jwt"
\* Admin.find({}): the two seeded administrators
adminEmails == Validators

\* the message of validate in each variant
ValidateMail_mongo(rec) ==
    Mail("validate", rec.id, Truthy({rec.manager_email, rec.hr_email}),
         Truthy({rec.applicant_email}), Null)
ValidateMail_gmail(rec) ==
    Mail("validate", rec.id, Truthy({rec.manager_email, rec.hr_email} \cup FixedTo),
         Truthy({rec.applicant_email}), Null)
ValidateMail_smtp(rec) ==
    Mail("validate", rec.id, Truthy({rec.manager_email, rec.hr_email} \cup FixedTo),
         Truthy({rec.applicant_email} \cup Validators), Null)
\* the message of refuse / cancel (the mongo variant sends none)
DecideMail_gmail(kind, rec, reason) ==
    Mail(kind, rec.id, Truthy({rec.applicant_email}), {}, reason)
DecideMail_smtp(kind, rec, reason) ==
    Mail(kind, rec.id, {rec.applicant_email}, adminEmails, reason)
\* the alert to the administrators on creation
CreatedMail(rec) == Mail("created", rec.id, adminEmails, {}, Null)

MailOf(op, rec, reason) ==
    IF op = "create" THEN CreatedMail(rec)
    ELSE IF op = "validate"
        THEN (IF variant = "mongo" THEN ValidateMail_mongo(rec)
              ELSE IF variant = "gmail" THEN ValidateMail_gmail(rec)
              ELSE ValidateMail_smtp(rec))
    ELSE IF variant = "gmail" THEN DecideMail_gmail(op, rec, reason)
    ELSE IF variant = "smtp" THEN DecideMail_smtp(op, rec, reason)
    ELSE NoMail

\* a handler behind authRequired begins: 401, or it awaits Request.findById
Begin_db(op, id, reason, tok) ==
    /\ variant \in Mongo /\ CanStart
    /\ IF ~authRequired(tok)
       THEN Reply(Resp(op, id, reason, 401, FALSE, "auth", "none", FALSE, FALSE))
       ELSE IF variant = "gmail" /\ ~isValidId(id)
       THEN Reply(Resp(op, id, reason, 400, FALSE, "id", "none", FALSE, FALSE))
       ELSE Await([Idle EXCEPT !.pc = "find", !.op = op, !.id = id, !.reason = reason])
Validate_mongo(id, tok) == variant = "mongo" /\ Begin_db("validate", id, Null, tok)
Refuse_mongo(id, reason, tok) == variant = "mongo" /\ Begin_db("refuse", id, reason, tok)
Cancel_mongo(id, reason, tok) == variant = "mongo" /\ Begin_db("cancel", id, reason, tok)
Validate_gmail(id, tok) == variant = "gmail" /\ Begin_db("validate", id, Null, tok)
Refuse_gmail(id, reason, tok) == variant = "gmail" /\ Begin_db("refuse", id, reason, tok)
Cancel_gmail(id, reason, tok) == variant = "gmail" /\ Begin_db("cancel", id, reason, tok)
Validate_smtp(id, tok) == variant = "smtp" /\ Begin_db("validate", id, Null, tok)
Refuse_smtp(id, reason, tok) == variant = "smtp" /\ Begin_db("refuse", id, reason, tok)
Cancel_smtp(id, reason, tok) == variant = "smtp" /\ Begin_db("cancel", id, reason, tok)

\* the assignments a handler makes to the document it loaded:
\* rec.status = ...; rec.refuse_reason / rec.cancel_reason = reason || ''
Assigned(op, doc, reason) ==
    LET why == IF Falsy(reason) THEN "" ELSE reason
    IN  IF op = "validate" THEN [doc EXCEPT !.status = "sent"]
        ELSE IF op = "refuse" THEN [doc EXCEPT !.status = "refused", !.refuse_reason = why]
        ELSE [doc EXCEPT !.status = "cancelled", !.cancel_reason = why]

\* rec.save(): Mongoose writes the paths whose value the handler changed
Save(stored, loaded, new) ==
    [stored EXCEPT
       !.status = IF new.status # loaded.status THEN new.status ELSE @,
       !.refuse_reason = IF new.refuse_reason # loaded.refuse_reason
                         THEN new.refuse_reason ELSE @,
       !.cancel_reason = IF new.cancel_reason # loaded.cancel_reason
                         THEN new.cancel_reason ELSE @,
       !.reminder2_sent_at = IF new.reminder2_sent_at # loaded.reminder2_sent_at
                             THEN new.reminder2_sent_at ELSE @,
       !.reminder4_sent_at = IF new.reminder4_sent_at # loaded.reminder4_sent_at
                             THEN new.reminder4_sent_at ELSE @,
       !.reminder_last_sent_on = IF new.reminder_last_sent_on # loaded.reminder_last_sent_on
                                 THEN new.reminder_last_sent_on ELSE @]

\* what becomes of a handler whose awaited promise rejects outside any try:
\* 0 when nothing is ever answered (Express 4 does not see the rejection),
\* 500 when the rejection reaches the error handler (Express 5)
Uncaught == {0, 500}

\* Request.findById settles.  An id that is no ObjectId makes it reject with
\* a CastError, which the mongo and smtp handlers do not catch; else the
\* handler answers 404, or changes its copy of the document and awaits
\* rec.save()
Found_db(c) ==
    /\ variant \in Mongo /\ calls[c].pc = "find"
    /\ IF ~isValidId(calls[c].id)
       THEN /\ \E code \in Uncaught : last' = Answer(c, code, FALSE, "cast")
            /\ calls' = [calls EXCEPT ![c] = Idle]
       ELSE IF ~Has(calls[c].id)
       THEN /\ last' = Answer(c, 404, FALSE, "id")
            /\ calls' = [calls EXCEPT ![c] = Idle]
       ELSE /\ calls' = [calls EXCEPT ![c].pc = "save", ![c].doc = Get(calls[c].id),
                                      ![c].seen = Get(calls[c].id).status]
            /\ UNCHANGED last
    /\ UNCHANGED <<variant, calc, requests, tokens, outbox, clock, nOps>>

\* rec.save() resolves.  mongo: the handler answers, then mails in the
\* background (validate) or is done (refuse, cancel).  gmail, smtp: the
\* handler awaits sendMail before it answers.
Saved_db(c) ==
    /\ variant \in Mongo /\ calls[c].pc = "save" /\ calls[c].op # "create"
    /\ LET op == calls[c].op
           new == Assigned(op, calls[c].doc, calls[c].reason)
           stored == Save(Get(calls[c].id), calls[c].doc, new)
           did == [calls[c] EXCEPT !.wrote = (stored # Get(calls[c].id)),
                                   !.prev = Get(calls[c].id).status, !.doc = new]
       IN  /\ requests' = Put(calls[c].id, stored)
           /\ IF variant = "mongo"
              THEN /\ last' = [Answer(c, 200, FALSE, "") EXCEPT
                                 !.wrote = did.wrote, !.prev = Get(calls[c].id).status]
                   /\ calls' = [calls EXCEPT ![c] =
                          IF op = "validate"
                          THEN [did EXCEPT !.pc = "mail", !.responded = TRUE,
                                           !.mail = MailOf(op, new, calls[c].reason)]
                          ELSE Idle]
              ELSE /\ calls' = [calls EXCEPT ![c] =
                          [did EXCEPT !.pc = "mail",
                                      !.mail = MailOf(op, new, calls[c].reason)]]
                   /\ UNCHANGED last
    /\ UNCHANGED <<variant, calc, tokens, outbox, clock, nOps>>

\* sendMail settled (its rejection is caught and logged): gmail and smtp
\* answer { ok: true }; the background mail of mongo just ends
Then_db(c) ==
    /\ variant \in Mongo /\ calls[c].pc \in {"sent", "failed"} /\ calls[c].op # "cron"
    /\ IF calls[c].responded
       THEN UNCHANGED last
       ELSE last' = Answer(c, 200, FALSE, "")
    /\ calls' = [calls EXCEPT ![c] = Idle]
    /\ UNCHANGED <<variant, calc, requests, tokens, outbox, clock, nOps>>

\* POST /api/requests: the first required key that is missing, else ""
missingKey(b) ==
    IF Falsy(b.fullName) THEN "fullName"
    ELSE IF Falsy(b.applicantEmail) THEN "applicantEmail"
    ELSE IF Falsy(b.entity) THEN "entity"
    ELSE IF b.dateFrom.f = "none" THEN "dateFrom"
    ELSE IF b.dateTo.f = "none" THEN "dateTo"
    ELSE IF Falsy(b.place) THEN "place"
    ELSE IF Falsy(b.type) THEN "type"
    ELSE IF Falsy(b.managerEmail) THEN "managerEmail"
    ELSE IF Falsy(b.hrEmail) THEN "hrEmail"
    ELSE IF b.days \in {NoDays, 0} THEN "days"
    ELSE ""

\* POST /api/requests, up to the await of Request.create
Create_db(body) ==
    /\ variant \in Mongo /\ CanStart
    /\ Len(requests) + Cardinality({c \in Slots : calls[c].pc = "insert"}) < MaxIds
    /\ IF missingKey(body) # ""
       THEN Reply(Resp("create", 0, Null, 400, FALSE, missingKey(body), "none", FALSE, FALSE))
       ELSE /\ calls' = [calls EXCEPT ![Slot] =
                  [Idle EXCEPT !.pc = "insert", !.op = "create",
                     !.doc = [NoRec EXCEPT
                        !.full_name = body.fullName,
                        !.applicant_email = body.applicantEmail, !.entity = body.entity,
                        !.date_from = body.dateFrom, !.date_to = body.dateTo,
                        !.start_period = IF Falsy(body.startPeriod) THEN "FULL"
                                         ELSE body.startPeriod,
                        !.end_period = IF Falsy(body.endPeriod) THEN "FULL"
                                       ELSE body.endPeriod,
                        !.place = body.place, !.type = body.type, !.days = body.days,
                        !.comment = IF Falsy(body.comment) THEN "" ELSE body.comment,
                        !.manager_email = body.managerEmail, !.hr_email = body.hrEmail,
                        !.status = "pending", !.created_at = clock]]]
            /\ clock' = clock + 1
            /\ nOps' = nOps + 1
            /\ UNCHANGED <<variant, calc, requests, tokens, outbox, last>>
Create_mongo(body) == variant = "mongo" /\ Create_db(body)
Create_gmail(body) == variant = "gmail" /\ Create_db(body)
Create_smtp(body) == variant = "smtp" /\ Create_db(body)

\* Request.create resolves: the document is in the collection.  mongo answers
\* and alerts the administrators in the background; gmail and smtp await the
\* alert before they answer.
Inserted_db(c) ==
    /\ variant \in Mongo /\ calls[c].pc = "insert"
    /\ LET rec == [calls[c].doc EXCEPT !.id = NewId]
           did == [calls[c] EXCEPT !.pc = "mail", !.id = rec.id, !.doc = rec,
                                   !.wrote = TRUE, !.mail = CreatedMail(rec)]
       IN  /\ requests' = Append(requests, rec)
           /\ IF variant = "mongo"
              THEN /\ last' = Resp("create", rec.id, Null, 200, FALSE, "", "none", TRUE, FALSE)
                   /\ calls' = [calls EXCEPT ![c] = [did EXCEPT !.responded = TRUE]]
              ELSE /\ calls' = [calls EXCEPT ![c] = did]
                   /\ UNCHANGED last
    /\ UNCHANGED <<variant, calc, tokens, outbox, clock, nOps>>

\* --------------------------------------------- POST /internal/cron/reminders
\* The clock counts ticks, DayLen of them to a day.
\* now.diff(created, 'day'): whole days from created to now
diff(now, created) == (now - created) \div DayLen
\* todayParisISO(): the calendar day of a time
todayParisISO(t) == t \div DayLen + 1

\* the reminders a run considers for one document, in order
FirstStage == IF variant = "gmail" THEN 1 ELSE 2
\* a loop that sends every reminder to every document it holds
Due_always(r, st, now) == TRUE
\* the condition of the reminder at stage st for document r
Due(r, st, now) ==
    IF st = 1 THEN r.reminder_last_sent_on # todayParisISO(now)
    ELSE IF st = 2 THEN diff(now, r.created_at) >= 2 /\ r.reminder2_sent_at = NoTime
    ELSE diff(now, r.created_at) >= 4 /\ r.reminder4_sent_at = NoTime
ReminderKind(st) == IF st = 1 THEN "daily" ELSE IF st = 2 THEN "reminder2" ELSE "reminder4"

\* the loop, from document i and stage st up to its next await of sendMail,
\* or to its end
RECURSIVE cronNext(_, _, _)
cronNext(call, i, st) ==
    IF i > Len(call.pending) THEN [call EXCEPT !.pc = "crondone"]
    ELSE LET r == call.pending[i]
         IN  IF Due(r, st, call.now)
             THEN [call EXCEPT !.pc = "mail", !.idx = i, !.stage = st, !.id = r.id,
                               !.doc = r,
                               !.mail = [Mail(ReminderKind(st), r.id, adminEmails, {}, Null)
                                           EXCEPT !.day = todayParisISO(call.now)]]
             ELSE IF st = 2 THEN cronNext(call, i, 4)
             ELSE cronNext(call, i + 1, FirstStage)
\* the run goes on to where next is, or answers { ok: true, ... }
CronGoes(c, next) ==
    IF next.pc = "crondone"
    THEN /\ last' = Resp("cron", 0, Null, 200, FALSE, "", "none", FALSE, FALSE)
         /\ calls' = [calls EXCEPT ![c] = Idle]
    ELSE /\ calls' = [calls EXCEPT ![c] = next]
         /\ UNCHANGED last

\* the route, up to the await of Request.find({ status: 'pending' })
Cron_db(ok) ==
    /\ variant \in Mongo /\ CanStart
    /\ IF ~ok THEN Reply(Resp("cron", 0, Null, 403, FALSE, "auth", "none", FALSE, FALSE))
       ELSE Await([Idle EXCEPT !.pc = "cronfind", !.op = "cron", !.now = clock])
\* Request.find settles: the run holds its own copies of the pending
\* documents, and awaits Admin.find({})
CronFound_db(c) ==
    /\ variant \in Mongo /\ calls[c].pc = "cronfind"
    /\ calls' = [calls EXCEPT
                   ![c].pc = "cronadmins",
                   ![c].pending = SelectSeq(requests, LAMBDA r : r.status = "pending")]
    /\ UNCHANGED <<variant, calc, requests, tokens, outbox, last, clock, nOps>>
\* Admin.find settles: the loop begins
CronAdmins_db(c) ==
    /\ variant \in Mongo /\ calls[c].pc = "cronadmins"
    /\ CronGoes(c, cronNext(calls[c], 1, FirstStage))
    /\ UNCHANGED <<variant, calc, requests, tokens, outbox, clock, nOps>>
\* sendMail settled.  mongo: sendMail has swallowed a failure, the marker is
\* set and saved.  smtp: the marker is set unless sendMail threw, the
\* document is saved either way.  gmail: the marker is set and the document
\* saved unless sendMail threw.
CronMailed_db(c) ==
    /\ variant \in Mongo /\ calls[c].op = "cron" /\ calls[c].pc \in {"sent", "failed"}
    /\ LET call == calls[c]
           r == call.pending[call.idx]
           marked == IF call.stage = 1
                         THEN [r EXCEPT !.reminder_last_sent_on = todayParisISO(call.now)]
                     ELSE IF call.stage = 2 THEN [r EXCEPT !.reminder2_sent_at = clock]
                     ELSE [r EXCEPT !.reminder4_sent_at = clock]
           set == variant = "mongo" \/ call.pc = "sent"
       IN  IF variant = "gmail" /\ ~set
           THEN CronGoes(c, cronNext(call, call.idx + 1, FirstStage))
           ELSE /\ calls' = [calls EXCEPT ![c] =
                      [call EXCEPT !.pc = "cronsave",
                                   !.pending[call.idx] = IF set THEN marked ELSE r]]
                /\ UNCHANGED last
    /\ UNCHANGED <<variant, calc, requests, tokens, outbox, clock, nOps>>
\* r.save() resolves
CronSaved_db(c) ==
    /\ variant \in Mongo /\ calls[c].pc = "cronsave"
    /\ LET call == calls[c]
           r == call.pending[call.idx]
       IN  /\ requests' = Put(call.id, Save(Get(call.id), call.doc, r))
           /\ CronGoes(c, IF call.stage = 2 THEN cronNext(call, call.idx, 4)
                          ELSE cronNext(call, call.idx + 1, FirstStage))
    /\ UNCHANGED <<variant, calc, tokens, outbox, clock, nOps>>
\* a day passes
Tick ==
    /\ todayParisISO(clock) <= MaxDays
    /\ clock' = clock + DayLen
    /\ UNCHANGED <<variant, calc, requests, tokens, calls, outbox, last, nOps>>

\* ------------------------------------------------------------- GET /api/requests
\* the answer { items } to a list call, and its 401
Items(q, items) ==
    [Resp("list", 0, Null, 200, FALSE, "", "none", FALSE, FALSE)
       EXCEPT !.query = q, !.items = items]
NoItems(q) ==
    [Resp("list", 0, Null, 401, FALSE, "auth", "none", FALSE, FALSE) EXCEPT !.query = q]

\* array variants: REQUESTS.slice() through the filters that are given
filter_array(q) ==
    SelectSeq(requests, LAMBDA r : /\ Falsy(q.status) \/ r.status = q.status
                                   /\ Falsy(q.entity) \/ r.entity = q.entity
                                   /\ Falsy(q.type) \/ r.type = q.type)
List_array(q, tok) ==
    /\ variant = "array" /\ CanStart
    /\ IF ~requireAuth_array(tok) THEN Reply(NoItems(q)) ELSE Reply(Items(q, filter_array(q)))
List_array1(q, tok) ==
    /\ variant = "array1" /\ CanStart
    /\ IF ~requireAuth_array1(tok) THEN Reply(NoItems(q)) ELSE Reply(Items(q, filter_array(q)))

\* String.prototype.toLowerCase on the status texts the model uses
toLowerCase(x) == IF x = "PENDING" THEN "pending" ELSE IF x = "SENT" THEN "sent" ELSE x
\* items.sort((a, b) => b.created_at.localeCompare(a.created_at)) and
\* .sort({ created_at: -1 }): newest first, equal keys in the order they had
RECURSIVE sortNewestFirst(_)
sortNewestFirst(items) ==
    IF items = <<>> THEN <<>>
    ELSE LET n == CHOOSE i \in 1..Len(items) :
                      \A j \in 1..Len(items) :
                          \/ items[j].created_at < items[i].created_at
                          \/ items[j].created_at = items[i].created_at /\ j >= i
         IN  <<items[n]>> \o sortNewestFirst(SubSeq(items, 1, n - 1)
                                              \o SubSeq(items, n + 1, Len(items)))
\* Map and Mongo variants: the status filter alone, then the sort
filter_status(q) ==
    LET status == toLowerCase(IF Falsy(q.status) THEN "" ELSE q.status)
    IN  sortNewestFirst(SelectSeq(requests, LAMBDA r : status = "" \/ r.status = status))
List_map(q, tok) ==
    /\ variant = "map" /\ CanStart
    /\ IF ~authMiddleware(tok) THEN Reply(NoItems(q)) ELSE Reply(Items(q, filter_status(q)))

\* Mongo variants: 401, or the handler awaits Request.find(q).sort().lean()
List_db(q, tok) ==
    /\ variant \in Mongo /\ CanStart
    /\ IF ~authRequired(tok) THEN Reply(NoItems(q))
       ELSE Await([Idle EXCEPT !.pc = "list", !.op = "list", !.query = q])
List_mongo(q, tok) == variant = "mongo" /\ List_db(q, tok)
List_gmail(q, tok) == variant = "gmail" /\ List_db(q, tok)
List_smtp(q, tok) == variant = "smtp" /\ List_db(q, tok)
\* the query settles: the handler answers with what the collection holds
Listed_db(c) ==
    /\ variant \in Mongo /\ calls[c].pc = "list"
    /\ last' = Items(calls[c].query, filter_status(calls[c].query))
    /\ calls' = [calls EXCEPT ![c] = Idle]
    /\ UNCHANGED <<variant, calc, requests, tokens, outbox, clock, nOps>>

\* ---------------------------------------------------------- mail transport
\* The SMTP transport settles a sendMail: it accepts the message, or the
\* promise rejects (server down, not configured, refused).
\* a transport whose failure the handler never sees
TransportFails_unseen(c) ==
    /\ calls[c].pc = "mail"
    /\ calls' = [calls EXCEPT ![c].pc = "sent", ![c].failed = TRUE]
    /\ UNCHANGED <<variant, calc, requests, tokens, outbox, last, clock, nOps>>
TransportAccepts(c) ==
    /\ calls[c].pc = "mail"
    /\ outbox' = Append(outbox, calls[c].mail)
    /\ calls' = [calls EXCEPT ![c].pc = "sent", ![c].mailed = TRUE]
    /\ UNCHANGED <<variant, calc, requests, tokens, last, clock, nOps>>
TransportFails(c) ==
    /\ calls[c].pc = "mail"
    /\ calls' = [calls EXCEPT ![c].pc = "failed", ![c].failed = TRUE]
    /\ UNCHANGED <<variant, calc, requests, tokens, outbox, last, clock, nOps>>

\* ---------------------------------------------------------------- inputs
Ids == {BadId} \cup 1..(MaxIds + 1)       \* MaxIds + 1 is never stored
Reasons == {Null, "", " ", "motif"}
Tokens == {"", "ok", "t1", "jwt"}
BodyOk == [fullName |-> "Ada", applicantEmail |-> "a@x.fr", entity |-> "E1",
           dateFrom |-> Iso(2024, 3, 1), dateTo |-> Iso(2024, 3, 5),
           startPeriod |-> "PM", endPeriod |-> "AM", place |-> "Paris",
           type |-> "21B", managerEmail |-> "m@x.fr", hrEmail |-> "h@x.fr",
           days |-> 8, comment |-> Null,
           \* keys no handler reads
           status |-> Null, validated_at |-> NoTime, decision_at |-> NoTime,
           decision_reason |-> Null]
Bodies == {BodyOk, [BodyOk EXCEPT !.managerEmail = "bad"],
           [BodyOk EXCEPT !.hrEmail = Null]}

\* ---------------------------------------------------------- specifications
Create(B) ==
    \E b \in B :
        \/ Create_array(b) \/ Create_array1(b) \/ Create_map(b)
        \/ Create_mongo(b) \/ Create_gmail(b) \/ Create_smtp(b)
Validate(I, T) ==
    \E id \in I, t \in T :
        \/ Validate_array(id, t) \/ Validate_array1(id, t) \/ Validate_map(id, t)
        \/ Validate_mongo(id, t) \/ Validate_gmail(id, t) \/ Validate_smtp(id, t)
Refuse(I, R, T) ==
    \E id \in I, r \in R, t \in T :
        \/ Refuse_array(id, r, t) \/ Refuse_map(id, r, t)
        \/ Refuse_mongo(id, r, t) \/ Refuse_gmail(id, r, t) \/ Refuse_smtp(id, r, t)
Cancel(I, R, T) ==
    \E id \in I, r \in R, t \in T :
        \/ Cancel_array(id, r, t) \/ Cancel_map(id, r, t)
        \/ Cancel_mongo(id, r, t) \/ Cancel_gmail(id, r, t) \/ Cancel_smtp(id, r, t)
Login == \E ok \in BOOLEAN : Login_map(ok)
\* a handler in flight resumes after its await
Resume ==
    \E c \in Slots :
        \/ Validate_array_then(c) \/ Refuse_array_then(c) \/ Cancel_array_then(c)
        \/ Validate_array1_then(c)
        \/ Validate_map_then(c) \/ Refuse_map_then(c) \/ Cancel_map_then(c)
        \/ Found_db(c) \/ Saved_db(c) \/ Inserted_db(c) \/ Then_db(c)
Transport == \E c \in Slots : TransportAccepts(c) \/ TransportFails(c)

\* no handler is in flight
Quiet == \A c \in Slots : Free(c)

\* Spec: the clients send one request at a time, each after the answer to the
\* one before (and after its background mail), with any input
Next ==
    \/ Quiet /\ Create(Bodies)
    \/ Quiet /\ Validate(Ids, Tokens)
    \/ Quiet /\ Refuse(Ids, Reasons, Tokens)
    \/ Quiet /\ Cancel(Ids, Reasons, Tokens)
    \/ Quiet /\ Login
    \/ Resume
    \/ Transport

Spec == Init /\ [][Next]_vars

\* SpecRace: authenticated administrators send requests while others are in
\* flight
RaceTokens == {"ok", "t1", "jwt"}
RaceReasons == {"", "motif"}
NextRace ==
    \/ Create({BodyOk})
    \/ Validate(1..MaxIds, RaceTokens)
    \/ Refuse(1..MaxIds, RaceReasons, RaceTokens)
    \/ Cancel(1..MaxIds, RaceReasons, RaceTokens)
    \/ Login
    \/ Resume
    \/ Transport

SpecRace == Init /\ [][NextRace]_vars

\* SpecList: administrators and strangers list, submit and decide, one call
\* at a time
BodyE2 == [BodyOk EXCEPT !.fullName = "Bob", !.entity = "E2", !.type = "21C"]
Queries == [status : {Null, "pending", "sent"}, entity : {Null, "E2"}, type : {Null, "21C"}]
List(Q, T) ==
    \E q \in Q, t \in T :
        \/ List_array(q, t) \/ List_array1(q, t) \/ List_map(q, t)
        \/ List_mongo(q, t) \/ List_gmail(q, t) \/ List_smtp(q, t)
Listed == \E c \in Slots : Listed_db(c)
NextList ==
    \/ Quiet /\ Create({BodyOk, BodyE2})
    \/ Quiet /\ List(Queries, Tokens)
    \/ Quiet /\ Validate(1..MaxIds, Tokens)
    \/ Quiet /\ Refuse(1..MaxIds, {"motif"}, Tokens)
    \/ Quiet /\ Cancel(1..MaxIds, {"motif"}, Tokens)
    \/ Quiet /\ Login
    \/ Resume
    \/ Listed
    \/ Transport

SpecList == Init /\ [][NextList]_vars

\* SpecCron: on a Mongo server the reminder job runs, one run at a time,
\* while days pass and administrators decide
InitCron == Init /\ variant \in Mongo
Cron == \E ok \in BOOLEAN : Cron_db(ok)
CronRuns ==
    \E c \in Slots :
        CronFound_db(c) \/ CronAdmins_db(c) \/ CronMailed_db(c) \/ CronSaved_db(c)
NoCron == \A c \in Slots : calls[c].op # "cron"
Decide ==
    \E op \in {"validate", "refuse", "cancel"}, id \in 1..MaxIds :
        Begin_db(op, id, IF op = "validate" THEN Null ELSE "motif", "jwt")
Handled == \E c \in Slots : Found_db(c) \/ Saved_db(c) \/ Inserted_db(c) \/ Then_db(c)
NextCron ==
    \/ Quiet /\ Create_db(BodyOk)
    \/ Tick
    \/ NoCron /\ Cron
    \/ Decide
    \/ CronRuns
    \/ Handled
    \/ Transport

SpecCron == InitCron /\ [][NextCron]_vars

\* SpecCronRace: reminder runs overlap
NextCronRace ==
    \/ Quiet /\ Create_db(BodyOk)
    \/ Tick
    \/ Cron
    \/ CronRuns
    \/ \E c \in Slots : Inserted_db(c)
    \/ \E c \in Slots : Then_db(c)
    \/ Transport

SpecCronRace == InitCron /\ [][NextCronRace]_vars

\* ------------------------------------------------------------- submissions
\* SpecCreate: clients submit requests, one at a time, with bodies that are
\* wrong in one respect each
CreateBodies ==
    {BodyOk,
     [BodyOk EXCEPT !.days = 20],                    \* not the computed duration
     [BodyOk EXCEPT !.days = NoDays],                \* no days in the body
     [BodyOk EXCEPT !.dateTo = Iso(2024, 2, 28)],    \* ends before it starts
     [BodyOk EXCEPT !.dateTo = Iso(2024, 3, 1)],     \* one day, PM then AM
     [BodyOk EXCEPT !.dateTo = NoDate, !.startPeriod = "AM", !.days = 1],
     [BodyOk EXCEPT !.applicantEmail = "bad"],
     [BodyOk EXCEPT !.managerEmail = "bad"],
     [BodyOk EXCEPT !.hrEmail = "a@@x.fr"],
     [BodyOk EXCEPT !.fullName = ""],
     [BodyOk EXCEPT !.entity = Null],
     [BodyOk EXCEPT !.place = ""],
     [BodyOk EXCEPT !.dateFrom = NoDate],
     [BodyOk EXCEPT !.startPeriod = Null, !.endPeriod = Null],   \* no markers
     [BodyOk EXCEPT !.startPeriod = "x"],                        \* no marker at all
     [BodyOk EXCEPT !.dateFrom = Fr(2024, 3, 1), !.dateTo = Fr(2024, 3, 5)],
     [BodyOk EXCEPT !.dateTo = Raw],                             \* "demain"
     \* a body that claims to be decided already
     [BodyOk EXCEPT !.fullName = "Eve", !.status = "sent", !.validated_at = 1,
                    !.decision_at = 1, !.decision_reason = "motif"]}

NextCreate ==
    \/ Quiet /\ Create(CreateBodies)
    \/ \E c \in Slots : Inserted_db(c)
    \/ \E c \in Slots : Then_db(c)
    \/ Transport

SpecCreate == Init /\ [][NextCreate]_vars

\* ------------------------------------------------------- the Day Calculator
\* SpecDays: computeDays of the running in-memory variant is called once, on
\* any arguments
DayArgs == {NoDate, Raw, Fr(2024, 3, 1), Iso(2024, 13, 1),
            Iso(2023, 12, 30), Iso(2024, 2, 28), Iso(2024, 2, 29),
            Iso(2024, 3, 1), Iso(2024, 3, 5)}
MarkerArgs == {Null, "FULL", "AM", "PM", "am", "x"}

InitDays ==
    /\ variant \in InMemory
    /\ requests = <<>> /\ tokens = {} /\ calls = [c \in Slots |-> Idle]
    /\ outbox = <<>> /\ last = NoResp /\ clock = 1 /\ nOps = 0
    /\ calc \in [dFrom : DayArgs, dTo : DayArgs, sp : MarkerArgs, ep : MarkerArgs,
                 done : {FALSE}, out : {NoDays}, phrase : {NoPhrase}]

\* computeDays of the given variant
computeDays(v, dFrom, dTo, sp, ep) ==
    IF v = "map" THEN computeDays_map(dFrom, dTo, sp, ep)
    ELSE IF v = "array" THEN computeDays_array(dFrom, dTo, sp, ep)
    ELSE computeDays_array1(dFrom, dTo, sp, ep)

Compute(v) ==
    /\ variant = v /\ ~calc.done
    /\ calc' = [calc EXCEPT !.done = TRUE,
                            !.out = computeDays(v, calc.dFrom, calc.dTo, calc.sp, calc.ep)]
    /\ UNCHANGED <<variant, requests, tokens, calls, outbox, last, clock, nOps>>
Compute_map == Compute("map")
Compute_array == Compute("array")
Compute_array1 == Compute("array1")

NextDays == Compute_map \/ Compute_array \/ Compute_array1

SpecDays == InitDays /\ [][NextDays]_vars

\* ------------------------------------------------------ the date renderers
\* toFR: YYYY-MM-DD becomes DD/MM/YYYY, a missing date the dash, any other
\* text itself
Dash == [f |-> "dash", y |-> 0, m |-> 0, d |-> 0]
toFR(d) == IF d.f = "iso" THEN Fr(d.y, d.m, d.d)
           ELSE IF d.f = "none" THEN Dash ELSE d

\* datePhrase of the Gmail variant
datePhrase_gmail(rec) ==
    LET a == rec.date_from
        b == IF rec.date_to.f = "none" THEN rec.date_from ELSE rec.date_to
        sp == toUpperCase(IF Falsy(rec.start_period) THEN "FULL" ELSE rec.start_period)
        ep == toUpperCase(IF Falsy(rec.end_period) THEN "FULL" ELSE rec.end_period)
        startTail == IF sp = "FULL" THEN "" ELSE IF sp = "AM" THEN "Matin" ELSE "Après-midi"
        endTail == IF ep = "FULL" THEN "" ELSE IF ep = "AM" THEN "Matin" ELSE "Après-midi"
    IN  IF a = b
        THEN IF (sp = "FULL" /\ ep = "FULL") \/ (sp = "AM" /\ ep = "PM")
                 THEN Phrase("day", toFR(a), NoDate, "", "")
             ELSE IF sp = "AM" /\ ep = "AM" THEN Phrase("day", toFR(a), NoDate, "Matin", "")
             ELSE IF sp = "PM" /\ ep = "PM" THEN Phrase("day", toFR(a), NoDate, "Après-midi", "")
             ELSE Phrase("day", toFR(a), NoDate, "", "")
        ELSE Phrase("span", toFR(a), toFR(b), startTail, endTail)

\* datePhrase of the SMTP variant
datePhrase_smtp(rec) ==
    LET a == rec.date_from
        b == rec.date_to
        sp == IF Falsy(rec.start_period) THEN "FULL" ELSE rec.start_period
        ep == IF Falsy(rec.end_period) THEN "FULL" ELSE rec.end_period
    IN  IF a.f = "none" /\ b.f = "none" THEN Phrase("dash", NoDate, NoDate, "", "")
        ELSE IF b.f = "none" \/ a = b
        THEN IF sp = "AM" /\ ep = "AM" THEN Phrase("day", toFR(a), NoDate, "Matin", "")
             ELSE IF sp = "PM" /\ ep = "PM" THEN Phrase("day", toFR(a), NoDate, "Après-midi", "")
             ELSE Phrase("day", toFR(a), NoDate, "", "")
        ELSE Phrase("span", toFR(a), toFR(b),
                    IF sp = "PM" THEN "Après-midi" ELSE "",
                    IF ep = "AM" THEN "Matin" ELSE "")

\* the Dates column of buildCSV (array variant)
buildCSV(r) ==
    IF r.date_from = r.date_to
    THEN Phrase("day", toFR(r.date_from), NoDate,
                IF r.start_period # "FULL"
                THEN (IF r.start_period = "AM" THEN "Matin" ELSE "Après-midi") ELSE "",
                "")
    ELSE Phrase("span", toFR(r.date_from), toFR(r.date_to),
                IF r.start_period = "PM" THEN "Après-midi" ELSE "",
                IF r.end_period = "AM" THEN "Matin" ELSE "")

\* SpecPhrase: the renderer of the running variant is called once, on a
\* record with any dates and markers
PhraseDates == {NoDate, Iso(2024, 3, 1), Iso(2024, 3, 5)}
PhraseMarkers == {Null, "FULL", "AM", "PM"}
InitPhrase ==
    /\ variant \in {"gmail", "smtp", "array"}
    /\ requests = <<>> /\ tokens = {} /\ calls = [c \in Slots |-> Idle]
    /\ outbox = <<>> /\ last = NoResp /\ clock = 1 /\ nOps = 0
    /\ calc \in [dFrom : PhraseDates, dTo : PhraseDates,
                 sp : PhraseMarkers, ep : PhraseMarkers,
                 done : {FALSE}, out : {NoDays}, phrase : {NoPhrase}]
\* the record the renderer is given
Rendered == [NoRec EXCEPT !.date_from = calc.dFrom, !.date_to = calc.dTo,
                          !.start_period = calc.sp, !.end_period = calc.ep]
Render(v, phrase) ==
    /\ variant = v /\ ~calc.done
    /\ calc' = [calc EXCEPT !.done = TRUE, !.phrase = phrase]
    /\ UNCHANGED <<variant, requests, tokens, calls, outbox, last, clock, nOps>>
Render_gmail == Render("gmail", datePhrase_gmail(Rendered))
Render_smtp == Render("smtp", datePhrase_smtp(Rendered))
Render_array == Render("array", buildCSV(Rendered))

NextPhrase == Render_gmail \/ Render_smtp \/ Render_array

SpecPhrase == InitPhrase /\ [][NextPhrase]_vars

\* ---------------------------------------------------------------- claims
Transitions == {"validate", "refuse", "cancel"}
Terminal == {"sent", "refused", "cancelled"}
\* a reason that is missing, empty or only blanks
Blank(r) == r = Null \/ trim(r) = ""
\* the status a transition writes
Target(op) == IF op = "validate" THEN "sent"
              ELSE IF op = "refuse" THEN "refused" ELSE "cancelled"
\* how many messages of this kind the transport accepted for this record
Mails(kind, id) ==
    Cardinality({i \in 1..Len(outbox) : outbox[i].kind = kind /\ outbox[i].id = id})

\* C1 (as claimed): a validate that found the record refused or cancelled
\* answers InvalidTransition (409), mails nothing and writes nothing; a
\* validate writes the record only when the status it found was pending.
C1_ValidateOnlyFromPending ==
    /\ (last.op = "validate" /\ last.seen \in {"refused", "cancelled"})
          => (last.code = 409 /\ ~last.wrote /\ ~last.mailed)
    /\ (last.op = "validate" /\ last.wrote) => last.seen = "pending"

\* C2 (as claimed): a refuse or cancel, given a reason, that found the record
\* sent, refused or cancelled answers InvalidTransition (409), mails nothing
\* and writes nothing; refuse and cancel write a record only when they found
\* it pending.
C2_DecideOnlyFromPending ==
    /\ (last.op \in {"refuse", "cancel"} /\ last.seen \in Terminal /\ ~Blank(last.reason))
          => (last.code = 409 /\ ~last.wrote /\ ~last.mailed)
    /\ (last.op \in {"refuse", "cancel"} /\ last.wrote /\ ~Blank(last.reason))
          => last.seen = "pending"

\* C3 (as claimed): validate calls sent one after another on a request that
\* was pending all answer success (the transport working); a call that finds
\* the request already sent writes nothing and has no message accepted by the
\* transport, so the first call alone writes and at most one message goes out.
C3_ValidateIdempotent ==
    /\ (last.op = "validate" /\ last.seen \in {"pending", "sent"} /\ ~last.failed)
          => last.code = 200
    /\ (last.op = "validate" /\ last.seen = "sent") => (~last.wrote /\ ~last.mailed)
    /\ \A c \in Slots :
          (calls[c].op = "validate" /\ calls[c].seen = "sent")
             => (~calls[c].wrote /\ ~calls[c].mailed)

\* C4 (as claimed): of two validate handlers in flight together that both
\* found the same record pending, at most one has its message accepted by the
\* transport.
C4_ConcurrentValidateOnce ==
    \A c, d \in Slots :
        (/\ c # d
         /\ calls[c].op = "validate" /\ calls[d].op = "validate"
         /\ calls[c].id = calls[d].id
         /\ calls[c].seen = "pending" /\ calls[d].seen = "pending")
        => ~(calls[c].mailed /\ calls[d].mailed)

\* Two transitions crossed on a record: the one that writes found the record
\* pending, and the status it overwrites was put there meanwhile by a
\* transition of the other side (validate against refuse or cancel).
Crossed(op, seen, prev) ==
    /\ seen = "pending"
    /\ \/ op = "validate" /\ prev \in {"refused", "cancelled"}
       \/ op \in {"refuse", "cancel"} /\ prev = "sent"

\* C5 (as claimed): a validate and a refuse or cancel in flight together on
\* one pending record are serialized: at most one of them writes the record,
\* so no transition that found the record pending overwrites the status the
\* other one wrote.
C5_TransitionsSerialized ==
    /\ (last.op \in Transitions /\ last.wrote) => ~Crossed(last.op, last.seen, last.prev)
    /\ \A c \in Slots :
          (calls[c].op \in Transitions /\ calls[c].wrote)
             => ~Crossed(calls[c].op, calls[c].seen, calls[c].prev)

\* C6 (as claimed), on the variants whose records carry the fields: status
\* decides which of validated_at, decision_at and decision_reason are set.
C6_StatusDeterminesFields ==
    variant \in InMemory =>
        \A i \in 1..Len(requests) :
            LET r == requests[i] IN
            /\ r.status = "pending" =>
                  (r.validated_at = NoTime /\ r.decision_at = NoTime
                   /\ r.decision_reason = Null)
            /\ r.status = "sent" =>
                  (r.validated_at # NoTime /\ r.decision_at = NoTime
                   /\ r.decision_reason = Null)
            /\ r.status \in {"refused", "cancelled"} =>
                  (r.validated_at = NoTime /\ r.decision_at # NoTime
                   /\ r.decision_reason # Null)
            /\ ~(r.validated_at # NoTime /\ r.decision_at # NoTime)

\* C7 (as claimed): a validate that finds the record already sent answers
\* 200 with already: true, writes nothing and hands nothing to the transport.
C7_AlreadySent ==
    /\ (last.op = "validate" /\ last.seen = "sent")
          => (last.code = 200 /\ last.already /\ ~last.wrote /\ ~last.mailed)
    /\ \A c \in Slots :
          (calls[c].op = "validate" /\ calls[c].seen = "sent")
             => (calls[c].pc # "mail" /\ ~calls[c].mailed)

\* C8 (as claimed): a refuse or cancel of a stored record with a missing,
\* empty or blank reason answers 400, mails nothing and writes nothing.
C8_ReasonRequired ==
    /\ (last.op \in {"refuse", "cancel"} /\ Blank(last.reason) /\ last.seen # "none")
          => (last.code = 400 /\ ~last.wrote /\ ~last.mailed)
    /\ \A c \in Slots :
          (calls[c].op \in {"refuse", "cancel"} /\ Blank(calls[c].reason)
           /\ calls[c].seen # "none")
             => (~calls[c].wrote /\ ~calls[c].mailed)

\* C9 (as claimed): when the transport failed for a transition on a pending
\* record, the handler still answers 200 and the record has the new status.
C9_MailFailureNotSurfaced ==
    (last.op \in Transitions /\ last.failed /\ last.seen = "pending")
       => (last.code = 200 /\ Get(last.id).status = Target(last.op))

\* C10 (as claimed): the status is written before the answer and before the
\* message goes out: once a transition's message is with the transport, or
\* its 200 answer is sent, the record is no longer pending.
C10_WriteBeforeMailAndAnswer ==
    /\ \A i \in 1..Len(outbox) :
          outbox[i].kind \in Transitions => Get(outbox[i].id).status # "pending"
    /\ (last.op \in Transitions /\ last.code = 200 /\ ~last.already)
          => Get(last.id).status # "pending"

\* C11 (as claimed): a validate, refuse or cancel call by an administrator
\* with an id that is not in the store is answered NotFound (404); nothing
\* is written and no message goes to the transport for it.
C11_UnknownIdNotFound ==
    /\ (last.op \in Transitions /\ last.code # 401 /\ ~Has(last.id))
          => (last.code = 404 /\ ~last.wrote /\ ~last.mailed)
    /\ \A c \in Slots :
          (calls[c].op \in Transitions /\ ~Has(calls[c].id))
             => (~calls[c].wrote /\ ~calls[c].mailed /\ calls[c].mail = NoMail)

\* the same for ids that are well-formed (every id of the in-memory
\* variants, an ObjectId text in the Mongo variants)
C11_WellFormedUnknownId ==
    (last.op \in Transitions /\ last.code # 401 /\ ~Has(last.id) /\ isValidId(last.id))
       => (last.code = 404 /\ ~last.wrote /\ ~last.mailed)

\* the calendar, apart from the code's arithmetic: a date of the calendar,
\* the day after it, and the number of days from one date to a later one,
\* both included
Markers == {"FULL", "AM", "PM"}
RealDate(s) == s.f = "iso" /\ s.m \in 1..12 /\ s.d \in 1..DaysInMonth(s.y, s.m)
DayAfter(s) ==
    IF s.d < DaysInMonth(s.y, s.m) THEN Iso(s.y, s.m, s.d + 1)
    ELSE IF s.m < 12 THEN Iso(s.y, s.m + 1, 1)
    ELSE Iso(s.y + 1, 1, 1)
Later(a, b) ==
    \/ a.y < b.y
    \/ a.y = b.y /\ a.m < b.m
    \/ a.y = b.y /\ a.m = b.m /\ a.d < b.d
RECURSIVE Span(_, _)
Span(a, b) == IF a = b THEN 1 ELSE 1 + Span(DayAfter(a), b)

\* C13 (as claimed): whatever the order of the two dates, computeDays
\* returns 0 when the start date is missing or a date does not parse, and a
\* positive multiple of one half when both dates are there and parse (a
\* missing end date alone is the case of C16).
C13_DaysPositiveOrZero ==
    (calc.done /\ (calc.dFrom = NoDate \/ calc.dTo # NoDate)) =>
        IF \/ calc.dFrom = NoDate
           \/ IsInvalidDate(calc.dFrom) \/ IsInvalidDate(calc.dTo)
        THEN calc.out = 0
        ELSE calc.out > 0

\* C14: for one calendar day (dateFrom = dateTo) and markers among FULL, AM,
\* PM, computeDays returns one half for AM/AM and PM/PM and one day for every
\* other pair.
C14_SameDay ==
    (/\ calc.done /\ calc.dFrom = calc.dTo /\ RealDate(calc.dFrom)
     /\ calc.sp \in Markers /\ calc.ep \in Markers)
    => calc.out = IF calc.sp = calc.ep /\ calc.sp \in {"AM", "PM"} THEN 1 ELSE 2
\* computeDays has returned one half for a day taken AM to AM
C14_SameDay_witness ==
    /\ calc.done /\ calc.dFrom = Iso(2024, 3, 1) /\ calc.dTo = Iso(2024, 3, 1)
    /\ calc.sp = "AM" /\ calc.ep = "AM" /\ calc.out = 1

\* C15: for dateTo later than dateFrom, N calendar days both included, and
\* markers among FULL, AM, PM, computeDays returns N, less one half when the
\* start marker is PM, less one half when the end marker is AM.
C15_MultiDay ==
    (/\ calc.done /\ RealDate(calc.dFrom) /\ RealDate(calc.dTo)
     /\ Later(calc.dFrom, calc.dTo)
     /\ calc.sp \in Markers /\ calc.ep \in Markers)
    => calc.out = 2 * Span(calc.dFrom, calc.dTo)
                    - (IF calc.sp = "PM" THEN 1 ELSE 0)
                    - (IF calc.ep = "AM" THEN 1 ELSE 0)
\* computeDays has returned 4 days for the five days 1 to 5 March, PM to AM
C15_MultiDay_witness ==
    /\ calc.done /\ calc.dFrom = Iso(2024, 3, 1) /\ calc.dTo = Iso(2024, 3, 5)
    /\ calc.sp = "PM" /\ calc.ep = "AM" /\ calc.out = 8

DayCalculator(r) ==
    computeDays(IF variant \in InMemory THEN variant ELSE "map",
                r.date_from, r.date_to, r.start_period, r.end_period)

\* C12 (as claimed): the days of every stored record is computeDays of the
\* record's own dates and markers, whatever days the body carried.
C12_DaysComputed ==
    \A i \in 1..Len(requests) : requests[i].days = DayCalculator(requests[i])

\* C17 (as claimed): no stored record ends before it starts.
C17_DateToNotBeforeDateFrom ==
    \A i \in 1..Len(requests) :
        requests[i].date_to # NoDate => ~Later(requests[i].date_to, requests[i].date_from)

\* C18 (as claimed): no stored record of one day starts PM and ends AM.
C18_NoSameDayPmAm ==
    \A i \in 1..Len(requests) :
        ~(/\ requests[i].date_from = requests[i].date_to
          /\ requests[i].start_period = "PM" /\ requests[i].end_period = "AM")

\* an address of the form local@domain.tld once blanks around it are gone
ValidAddress(s) == s # Null /\ trim(s) \in {"a@x.fr", "m@x.fr", "h@x.fr"}

\* C19 (as claimed): a submission with an invalid applicant, manager or HR
\* address is rejected, so every stored record has valid addresses (the
\* records of part_001 have no applicant address).
C19_AddressesValid ==
    \A i \in 1..Len(requests) :
        /\ ValidAddress(requests[i].manager_email)
        /\ ValidAddress(requests[i].hr_email)
        /\ variant # "array1" => ValidAddress(requests[i].applicant_email)

\* C20 (as claimed): a submission without a name, entity, place or start
\* date is rejected, so every stored record has all four.
C20_RequiredFields ==
    \A i \in 1..Len(requests) :
        /\ ~Falsy(requests[i].full_name) /\ ~Falsy(requests[i].entity)
        /\ ~Falsy(requests[i].place) /\ requests[i].date_from # NoDate

\* C21: every stored record has startPeriod and endPeriod in {FULL, AM, PM}; a
\* submission without a marker is stored with FULL, one with any other marker
\* is rejected.  The Map variant upper-cases the marker and stores it
\* unchecked, the Mongo variants store the text of the body.
C21_MarkersValid ==
    \A i \in 1..Len(requests) :
        requests[i].start_period \in Markers /\ requests[i].end_period \in Markers

\* C22: every stored record has dateFrom and dateTo in YYYY-MM-DD form (a
\* DD/MM/YYYY date converted, any other form rejected).  Only the array
\* variants normalize and check the form.
C22_DatesIso ==
    \A i \in 1..Len(requests) :
        requests[i].date_from.f = "iso" /\ requests[i].date_to.f = "iso"

\* C23: every accepted submission creates a record with status pending,
\* createdAt set, and validatedAt, decisionAt and decisionReason unset,
\* whatever status, timestamp or decision keys the body carries.  (No
\* transition runs in SpecCreate: every record is as its creation left it.)
C23_CreatedPending ==
    \A i \in 1..Len(requests) :
        /\ requests[i].status = "pending"
        /\ requests[i].created_at # NoTime
        /\ requests[i].validated_at = NoTime
        /\ requests[i].decision_at = NoTime
        /\ requests[i].decision_reason = Null
        /\ requests[i].refuse_reason = Null /\ requests[i].cancel_reason = Null
\* the body that claims to be sent and decided was accepted
C23_CreatedPending_witness ==
    /\ last.op = "create" /\ last.code = 200 /\ Has(last.id)
    /\ Get(last.id).full_name = "Eve"

\* C24: a validate, refuse or cancel call changes at most the status,
\* validatedAt, decisionAt and decisionReason (refuse_reason, cancel_reason in
\* the Mongo variants) of the record with the given id: every other field of
\* that record is unchanged, and a record changes only in a step of a
\* transition call that was given its id.
Frame(r) ==
    [id |-> r.id, created_at |-> r.created_at, full_name |-> r.full_name,
     applicant_email |-> r.applicant_email, manager_email |-> r.manager_email,
     hr_email |-> r.hr_email, entity |-> r.entity, place |-> r.place,
     date_from |-> r.date_from, date_to |-> r.date_to,
     start_period |-> r.start_period, end_period |-> r.end_period,
     type |-> r.type, days |-> r.days, comment |-> r.comment,
     reminder2_sent_at |-> r.reminder2_sent_at,
     reminder4_sent_at |-> r.reminder4_sent_at,
     reminder_last_sent_on |-> r.reminder_last_sent_on]
StoredIds == {requests[i].id : i \in 1..Len(requests)}
C24_TransitionFrame ==
    [][\A id \in StoredIds :
          /\ Has(id)'
          /\ Frame(Get(id)') = Frame(Get(id))
          /\ Get(id)' # Get(id) =>
                \E c \in Slots : /\ calls[c].op \in Transitions /\ calls[c].id = id
                                 /\ calls'[c] # calls[c]]_vars
\* a transition has written one of two stored records
C24_TransitionFrame_witness ==
    /\ Len(requests) = 2 /\ last.op \in Transitions /\ last.wrote
    /\ Has(last.id) /\ Get(last.id).status \in Terminal
    /\ \E id \in StoredIds : id # last.id /\ Get(id).status = "pending"

C26_ValidateRecipients ==
    \A k \in 1..Len(outbox) :
        (outbox[k].kind = "validate" /\ Has(outbox[k].id)) =>
            LET r == Get(outbox[k].id)
            IN  /\ outbox[k].to = {r.manager_email, r.hr_email} \cup FixedTo
                /\ outbox[k].cc = {r.applicant_email}

\* C27: every successful refuse or cancel of a pending record dispatches
\* exactly one notification, addressed to the record's applicant address only
\* (no other To, no CC), and the notification carries the supplied reason.
C27_DecisionToApplicantOnly ==
    /\ \A k \in 1..Len(outbox) :
          (outbox[k].kind \in {"refuse", "cancel"} /\ Has(outbox[k].id)) =>
              /\ outbox[k].to = {Get(outbox[k].id).applicant_email}
              /\ outbox[k].cc = {}
    /\ (Quiet /\ last.op \in {"refuse", "cancel"} /\ last.code = 200
              /\ last.seen = "pending") =>
          /\ last.mailed \/ last.failed
          /\ Mails(last.op, last.id) <= 1
          /\ \A k \in 1..Len(outbox) :
                (outbox[k].kind = last.op /\ outbox[k].id = last.id) =>
                    outbox[k].reason = last.reason

\* C28: a list call returns exactly the stored records that match every
\* supplied filter among status, entity and type (all records when no filter
\* is given), newest first, and does not modify the store.  ListAnswers is a
\* step in which a list handler sends its answer.
Matches(r, q) ==
    /\ q.status = Null \/ r.status = q.status
    /\ q.entity = Null \/ r.entity = q.entity
    /\ q.type = Null \/ r.type = q.type
ListAnswers ==
    /\ last'.op = "list"
    /\ \/ nOps' = nOps + 1 /\ calls' = calls
       \/ \E c \in Slots : calls[c].op = "list" /\ calls'[c].pc = "idle"
C28_ListFiltered ==
    [][ListAnswers =>
          /\ requests' = requests
          /\ last'.code = 200 =>
                LET items == last'.items
                    want == {requests[i] : i \in {j \in 1..Len(requests) :
                                                      Matches(requests[j], last'.query)}}
                IN  /\ {items[k] : k \in 1..Len(items)} = want
                    /\ Len(items) = Cardinality(want)
                    /\ \A k, l \in 1..Len(items) :
                          k < l => items[k].created_at >= items[l].created_at]_vars

\* C29: the rendered date phrase carries a half-day marker exactly when the
\* boundary is a half day: a single-day record shows Matin / Après-midi
\* exactly when it is a half day (AM/AM, PM/PM) and no marker when it counts
\* as a full day; a multi-day record shows a start-afternoon annotation
\* exactly when startPeriod = PM, an end-morning annotation exactly when
\* endPeriod = AM, and no other annotation.  Stated of records with both
\* dates and both markers.
C29_HalfDayMarkers ==
    (/\ calc.done /\ calc.phrase # NoPhrase
     /\ calc.dFrom # NoDate /\ calc.dTo # NoDate
     /\ calc.sp \in Markers /\ calc.ep \in Markers) =>
        IF calc.dFrom = calc.dTo
        THEN /\ calc.phrase.form = "day"
             /\ calc.phrase.start =
                    (IF calc.sp = "AM" /\ calc.ep = "AM" THEN "Matin"
                     ELSE IF calc.sp = "PM" /\ calc.ep = "PM" THEN "Après-midi" ELSE "")
             /\ calc.phrase.end = ""
        ELSE /\ calc.phrase.form = "span"
             /\ calc.phrase.start = (IF calc.sp = "PM" THEN "Après-midi" ELSE "")
             /\ calc.phrase.end = (IF calc.ep = "AM" THEN "Matin" ELSE "")

\* C30: a list, validate, refuse or cancel call that does not carry a bearer
\* token the auth check accepts is answered Unauthorized (401), dispatches
\* no notification, and leaves every stored record unchanged.  The tokens a
\* server accepts: the array variants the text 'ok', the Map variant the
\* tokens its login has issued, the Mongo variants a JWT of an administrator.
AcceptedTokens ==
    IF variant \in {"array", "array1"} THEN {"ok"}
    ELSE IF variant = "map" THEN tokens
    ELSE {"jwt"}
UnauthorizedCall ==
    \E t \in Tokens \ AcceptedTokens :
        \/ List(Queries, {t})
        \/ Validate(Ids, {t})
        \/ Refuse(Ids, Reasons, {t})
        \/ Cancel(Ids, Reasons, {t})
C30_Unauthorized ==
    [][UnauthorizedCall =>
          /\ last'.code = 401
          /\ requests' = requests /\ outbox' = outbox /\ calls' = calls]_vars
\* a stranger's validate of a pending record was answered 401
C30_Unauthorized_witness ==
    /\ last.op = "validate" /\ last.code = 401
    /\ Has(last.id) /\ Get(last.id).status = "pending" /\ outbox = <<>>

\* C31: in the in-memory variants a record's status is sent, refused or
\* cancelled only if the transport accepted the corresponding notification
\* beforehand; when the transport throws during validate, refuse or cancel
\* the call is answered 500 and the record is left exactly as it was.
Notice(status) ==
    IF status = "sent" THEN "validate" ELSE IF status = "refused" THEN "refuse" ELSE "cancel"
MailBeforeStatus ==
    variant \in InMemory =>
        /\ \A i \in 1..Len(requests') :
              requests'[i].status \in Terminal =>
                  \E k \in 1..Len(outbox') :
                      /\ outbox'[k].id = requests'[i].id
                      /\ outbox'[k].kind = Notice(requests'[i].status)
        /\ \A c \in Slots :
              (calls[c].pc = "failed" /\ calls'[c].pc = "idle") =>
                  /\ last'.code = 500 /\ last'.op = calls[c].op /\ last'.id = calls[c].id
                  /\ requests' = requests
C31_MailBeforeStatus == [][MailBeforeStatus]_vars
\* the transport threw for a transition of a pending record: answered 500,
\* the record still pending
C31_MailBeforeStatus_witness ==
    /\ variant \in InMemory /\ last.op \in Transitions /\ last.failed
    /\ last.code = 500 /\ last.seen = "pending" /\ Quiet
    /\ Has(last.id) /\ Get(last.id).status = "pending"

\* C32: a reminder is dispatched for a request only if the request's status
\* is pending at the moment of the dispatch, also when a validate, refuse or
\* cancel of the request runs between the cron run's reading of the pending
\* list and the dispatch.  A dispatch is a step in which a cron run hands a
\* message to sendMail.
Reminders == {"daily", "reminder2", "reminder4"}
ReminderDispatched(c) ==
    /\ calls'[c].op = "cron" /\ calls'[c].pc = "mail"
    /\ calls[c].pc # "mail"
PendingAtDispatch ==
    \A c \in Slots :
        ReminderDispatched(c) =>
            (Has(calls'[c].id) /\ Get(calls'[c].id).status = "pending")
C32_ReminderOnlyIfPending == [][PendingAtDispatch]_vars

\* C33: across reminder cron runs that do not overlap, each request receives
\* at most one J+2 reminder and at most one J+4 reminder, and a J+2 (J+4)
\* reminder is sent only when the request is at least 2 (4) days old.
OldEnough ==
    \A c \in Slots :
        ReminderDispatched(c) =>
            LET r == calls'[c].pending[calls'[c].idx]
            IN  /\ calls'[c].stage = 2 => clock - r.created_at >= 2 * DayLen
                /\ calls'[c].stage = 4 => clock - r.created_at >= 4 * DayLen
AtMostOnce ==
    \A id \in 1..MaxIds : Mails("reminder2", id) <= 1 /\ Mails("reminder4", id) <= 1
C34_NoDuplicateWhenOverlapping ==
    /\ AtMostOnce
    /\ \A i, j \in 1..Len(outbox) :
          (/\ outbox[i].kind = "daily" /\ outbox[j].kind = "daily"
           /\ outbox[i].id = outbox[j].id /\ outbox[i].day = outbox[j].day) => i = j

\* C35: a reminder is recorded as sent (reminder2_sent_at, reminder4_sent_at
\* or reminder_last_sent_on written) only if the reminder mail was handed to
\* the transport without error; when the transport fails or is not
\* configured the marker stays unset, so that a later run retries.
C35_MarkerOnlyIfMailed ==
    \A i \in 1..Len(requests) :
        LET r == requests[i] IN
        /\ r.reminder2_sent_at # NoTime => Mails("reminder2", r.id) >= 1
        /\ r.reminder4_sent_at # NoTime => Mails("reminder4", r.id) >= 1
        /\ r.reminder_last_sent_on # NoTime =>
              \E k \in 1..Len(outbox) :
                  /\ outbox[k].kind = "daily" /\ outbox[k].id = r.id
                  /\ outbox[k].day = r.reminder_last_sent_on

\* C36: in every reachable state a request whose reminder4_sent_at is set
\* also has reminder2_sent_at set.
C36_Reminder4ImpliesReminder2 ==
    \A i \in 1..Len(requests) :
        requests[i].reminder4_sent_at # NoTime => requests[i].reminder2_sent_at # NoTime

\* C37: on two present dates that parse and two markers among FULL, AM, PM,
\* the computeDays of server.js, of part_000 and of part_001 return the same
\* value: the one the running variant has computed.
WellFormed ==
    /\ calc.dFrom # NoDate /\ calc.dTo # NoDate
    /\ ~IsInvalidDate(calc.dFrom) /\ ~IsInvalidDate(calc.dTo)
    /\ calc.sp \in Markers /\ calc.ep \in Markers
C37_ComputeDaysEquivalent ==
    (calc.done /\ WellFormed) =>
        /\ calc.out = computeDays_map(calc.dFrom, calc.dTo, calc.sp, calc.ep)
        /\ calc.out = computeDays_array(calc.dFrom, calc.dTo, calc.sp, calc.ep)
        /\ calc.out = computeDays_array1(calc.dFrom, calc.dTo, calc.sp, calc.ep)
C37_ComputeDaysEquivalent_witness ==
    /\ calc.done /\ WellFormed /\ variant = "array"
    /\ calc.dFrom = calc.dTo /\ calc.sp = "PM" /\ calc.ep = "AM" /\ calc.out = 2

====
